---- MODULE Spec2Model ----
(***************************************************************************)
(* Model of packages/renderer/src/select-composition.ts: the FFmpeg audio  *)
(* filter assembler stringifyFfmpegFilter with its helpers stringifyTrim   *)
(* and trimAndSetTempo.                                                    *)
(*                                                                         *)
(* Numbers.  The source computes with JavaScript numbers.  The model       *)
(* computes with exact decimal-scaled rationals [n, d, e] = (n / d) * 10^e *)
(* (d > 0), so that a value such as 6e-13 and a value such as 1/3 are both *)
(* representable in TLC's integers.  The rounding of IEEE doubles in the   *)
(* last bit (relative error 2^-53) is not modelled; every conversion of a  *)
(* number to text (template literals, toFixed, Math.round) is computed     *)
(* digit by digit.                                                         *)
(*                                                                         *)
(* Strings.  A string is the sequence of its characters, each a one        *)
(* character TLA+ string, so that includes(), join() and the shape of a    *)
(* literal are checked on the characters themselves.                       *)
(*                                                                         *)
(* Specifications.  stringifyFfmpegFilter is a pure function: Init draws a *)
(* request and the one action applies the function to it.  Spec draws the  *)
(* requests that vary what the validation and the clauses read, SpecTiming *)
(* those that vary what the timing (trim, tempo, padding) reads.           *)
(* SpecTrimAndSetTempo and SpecStringifyTrim do the same for the two       *)
(* helpers, called on their own with arguments of their parameter types.   *)
(* SpecSelectComposition applies selectComposition to the options it      *)
(* forwards; SpecInternalSelectComposition steps through the promise chain *)
(* of internalSelectCompositionRaw, one action per callback, and           *)
(* FairSpecInternalSelectComposition adds that the chain makes progress;   *)
(* SpecMakeSearchResults applies makeSearchResults to a menu structure and *)
(* then selects one of the results.                                        *)
(***************************************************************************)
EXTENDS Integers, Sequences, FiniteSets, TLC

----------------------------------------------------------------------------
(* JavaScript numbers as exact decimal-scaled rationals *)

Abs(i) == IF i < 0 THEN -i ELSE i

Min(i, j) == IF i <= j THEN i ELSE j

RECURSIVE GCD(_, _)
GCD(a, b) == IF b = 0 THEN a ELSE GCD(b, a % b)

RECURSIVE Pow10(_)
Pow10(k) == IF k <= 0 THEN 1 ELSE 10 * Pow10(k - 1)

\* null, for a `number | null`: told apart from every number by d = 0
Null == [n |-> 0, d |-> 0, e |-> 0]

IsNull(x) == x.d = 0

\* the powers of ten common to numerator and denominator go to the exponent
RECURSIVE Strip10(_, _, _)
Strip10(n, d, e) ==
    IF n % 10 = 0 THEN Strip10(n \div 10, d, e + 1)
    ELSE IF d % 10 = 0 THEN Strip10(n, d \div 10, e - 1)
    ELSE [n |-> n, d |-> d, e |-> e]

Norm(n, d, e) ==
    IF n = 0 THEN [n |-> 0, d |-> 1, e |-> 0]
    ELSE LET g == GCD(Abs(n), d)
         IN  Strip10(n \div g, d \div g, e)

Num(n, d) == Norm(n, d, 0)

Int2Num(i) == Norm(i, 1, 0)

Zero == Int2Num(0)

One == Int2Num(1)

Sign(x) == IF x.n > 0 THEN 1 ELSE IF x.n < 0 THEN -1 ELSE 0

Neg(x) == [x EXCEPT !.n = -x.n]

\* a * b * 10^e with the factors 2 of one and 5 of the other paired into tens
RECURSIVE MulPaired(_, _, _, _)
MulPaired(a, b, d, e) ==
    IF a % 5 = 0 /\ b % 2 = 0 THEN MulPaired(a \div 5, b \div 2, d, e + 1)
    ELSE IF a % 2 = 0 /\ b % 5 = 0 THEN MulPaired(a \div 2, b \div 5, d, e + 1)
    ELSE Norm(a * b, d, e)

Mul(x, y) ==
    IF x.n = 0 \/ y.n = 0 THEN Zero
    ELSE LET g1 == GCD(Abs(x.n), y.d)
             g2 == GCD(Abs(y.n), x.d)
         IN  MulPaired(x.n \div g1, y.n \div g2,
                       (x.d \div g2) * (y.d \div g1), x.e + y.e)

\* x / y for y # 0
Div(x, y) ==
    Mul(x, [n |-> Sign(y) * y.d, d |-> Abs(y.n), e |-> -y.e])

Add(x, y) ==
    IF x.n = 0 THEN y
    ELSE IF y.n = 0 THEN x
    ELSE LET e0 == Min(x.e, y.e)
             l  == (x.d \div GCD(x.d, y.d)) * y.d
         IN  Norm(x.n * Pow10(x.e - e0) * (l \div x.d)
                    + y.n * Pow10(y.e - e0) * (l \div y.d),
                  l, e0)

Sub(x, y) == Add(x, Neg(y))

\* floor(log10(n / d)) for n, d > 0
RECURSIVE Log10Floor(_, _)
Log10Floor(n, d) ==
    IF n >= d
    THEN IF n \div 10 >= d THEN 1 + Log10Floor(n \div 10, d) ELSE 0
    ELSE Log10Floor(n * 10, d) - 1

\* the decimal order of magnitude of x # 0: 10^Order(x) <= |x| < 10^(Order(x)+1)
Order(x) == x.e + Log10Floor(Abs(x.n), x.d)

Lt(x, y) ==
    IF Sign(x) # Sign(y) THEN Sign(x) < Sign(y)
    ELSE IF Sign(x) = 0 THEN FALSE
    ELSE IF Order(x) # Order(y)
         THEN IF Sign(x) > 0 THEN Order(x) < Order(y) ELSE Order(x) > Order(y)
         ELSE Sign(Sub(x, y)) < 0

Eq(x, y) == ~Lt(x, y) /\ ~Lt(y, x)

Le(x, y) == ~Lt(y, x)

Gt(x, y) == Lt(y, x)

Ge(x, y) == ~Lt(x, y)

\* Math.min
MathMin(x, y) == IF Lt(y, x) THEN y ELSE x

\* the largest integer <= x
Floor(x) ==
    IF x.n = 0 THEN 0
    ELSE IF Order(x) < 0 THEN (IF x.n > 0 THEN 0 ELSE -1)
    ELSE IF x.e >= 0 THEN (x.n * Pow10(x.e)) \div x.d
    ELSE x.n \div (x.d * Pow10(-x.e))

\* Math.round: the nearest integer, a tie going up
MathRound(x) == Int2Num(Floor(Add(x, Num(1, 2))))

----------------------------------------------------------------------------
(* JavaScript strings as sequences of characters *)

DigitChars == <<"0", "1", "2", "3", "4", "5", "6", "7", "8", "9">>

\* null, for a `string | null`: its one element is no character
NullString == <<"null">>

EmptyString == <<>>

RECURSIVE NatToChars(_)
NatToChars(k) ==
    IF k < 10 THEN <<DigitChars[k + 1]>>
    ELSE NatToChars(k \div 10) \o <<DigitChars[(k % 10) + 1]>>

RECURSIVE Zeros(_)
Zeros(k) == IF k <= 0 THEN <<>> ELSE <<"0">> \o Zeros(k - 1)

\* String.prototype.includes
Includes(s, pat) ==
    \E i \in 1..(Len(s) - Len(pat) + 1) : SubSeq(s, i, i + Len(pat) - 1) = pat

\* Array.prototype.join
RECURSIVE Join(_, _)
Join(parts, sep) ==
    IF Len(parts) = 0 THEN <<>>
    ELSE IF Len(parts) = 1 THEN parts[1]
    ELSE parts[1] \o sep \o Join(Tail(parts), sep)

\* new Array(k).fill(v)
RECURSIVE Fill(_, _)
Fill(k, v) == IF k <= 0 THEN <<>> ELSE <<v>> \o Fill(k - 1, v)

\* Number::toString writes the shortest digits that read back as the same
\* double, at most 17 of them; the model writes the exact digits, cut after
\* the 17th
MaxSigDigits == 17

\* the first k significant digits of num / den in [1, 10), ending early when exact
RECURSIVE SigDigits(_, _, _)
SigDigits(num, den, k) ==
    IF k = 0 \/ num = 0 THEN <<>>
    ELSE <<DigitChars[(num \div den) + 1]>>
             \o SigDigits((num % den) * 10, den, k - 1)

\* `${x}` of a number: decimal notation for 1e-6 <= |x| < 1e21, else exponential
NumberToString(x) ==
    IF x.n = 0 THEN <<"0">>
    ELSE LET o    == Order(x)
             sh   == x.e - o
             num  == IF sh >= 0 THEN Abs(x.n) * Pow10(sh) ELSE Abs(x.n)
             den  == IF sh >= 0 THEN x.d ELSE x.d * Pow10(-sh)
             ds   == SigDigits(num, den, MaxSigDigits)
             l    == Len(ds)
             mant == IF l = 1 THEN ds ELSE <<ds[1], ".">> \o SubSeq(ds, 2, l)
             body == IF o >= 21 THEN mant \o <<"e", "+">> \o NatToChars(o)
                     ELSE IF o < -6 THEN mant \o <<"e", "-">> \o NatToChars(-o)
                     ELSE IF o >= 0
                          THEN IF l <= o + 1 THEN ds \o Zeros(o + 1 - l)
                               ELSE SubSeq(ds, 1, o + 1) \o <<".">>
                                      \o SubSeq(ds, o + 2, l)
                          ELSE <<"0", ".">> \o Zeros(-o - 1) \o ds
         IN  IF x.n < 0 THEN <<"-">> \o body ELSE body

\* x.toFixed(0) for |x| < 1e21: the nearest integer, a tie going away from zero
ToFixed0(x) ==
    IF x.n < 0 THEN <<"-">> \o NatToChars(Floor(Add(Neg(x), Num(1, 2))))
    ELSE NatToChars(Floor(Add(x, Num(1, 2))))

\* Boolean(value) of a `string | null`
truthy(s) == s # NullString /\ s # EmptyString

\* Array.prototype.filter(truthy)
RECURSIVE FilterTruthy(_)
FilterTruthy(parts) ==
    IF Len(parts) = 0 THEN <<>>
    ELSE IF truthy(parts[1]) THEN <<parts[1]>> \o FilterTruthy(Tail(parts))
    ELSE FilterTruthy(Tail(parts))

\* Boolean(value) of a `number | null`
TruthyNumber(x) == ~IsNull(x) /\ x.n # 0

----------------------------------------------------------------------------
(* The external services and constants of the assembler *)

\* the fixed sample rate of the pipeline, imported from ./sample-rate
DEFAULT_SAMPLE_RATE == 48000

\* calculateATempo of ./assets/calculate-atempo, given: no clause for a rate
\* of 1, else one opaque clause for the rate
calculateATempo(playbackRate) ==
    IF Eq(playbackRate, One) THEN NullString
    ELSE <<"a", "t", "e", "m", "p", "o", "=">> \o NumberToString(playbackRate)

\* what ffmpegVolumeExpression of ./assets/ffmpeg-volume-expression, given,
\* may answer: {value, eval}
VolumeFilters ==
    { [value |-> <<"1">>, eval |-> <<"o", "n", "c", "e">>],
      [value |-> <<"0", ".", "5">>, eval |-> <<"o", "n", "c", "e">>],
      [value |-> <<"1", ".", "0">>, eval |-> <<"f", "r", "a", "m", "e">>] }

----------------------------------------------------------------------------
(* stringifyTrim *)

stringifyTrim(trim) ==
    LET value    == Mul(trim, Int2Num(1000000))
        asString == NumberToString(value) \o <<"u", "s">>
    IN  IF Includes(asString, <<"e", "-">>) THEN <<"0", "u", "s">> ELSE asString

----------------------------------------------------------------------------
(* trimAndSetTempo *)

\* mutant: the right bound is never clamped to the asset
TrimRightNeverClamped(trimRight, assetDuration) == trimRight

TrimRightOrAssetDuration(trimRight, assetDuration) ==
    IF TruthyNumber(assetDuration) THEN MathMin(trimRight, assetDuration)
    ELSE trimRight

\* mutant: the left bound is not rescaled by the playback rate
SeamlessLeftNotRescaled(playbackRate, trimLeft, trimRightOrAssetDuration) ==
    LET actualTrimLeft  == trimLeft
        actualTrimRight == Div(trimRightOrAssetDuration, playbackRate)
    IN  [ threw           |-> FALSE,
          filter          |-> << calculateATempo(playbackRate),
                                 <<"a", "t", "r", "i", "m", "=">> \o stringifyTrim(actualTrimLeft)
                                    \o <<":">> \o stringifyTrim(actualTrimRight) >>,
          actualTrimLeft  |-> actualTrimLeft,
          audibleDuration |-> Sub(actualTrimRight, actualTrimLeft) ]

\* mutant: in seamless mode the trim comes before the tempo
SeamlessTrimFirst(playbackRate, trimLeft, trimRightOrAssetDuration) ==
    LET actualTrimLeft  == Div(trimLeft, playbackRate)
        actualTrimRight == Div(trimRightOrAssetDuration, playbackRate)
    IN  [ threw           |-> FALSE,
          filter          |-> << <<"a", "t", "r", "i", "m", "=">> \o stringifyTrim(actualTrimLeft)
                                    \o <<":">> \o stringifyTrim(actualTrimRight),
                                 calculateATempo(playbackRate) >>,
          actualTrimLeft  |-> actualTrimLeft,
          audibleDuration |-> Sub(actualTrimRight, actualTrimLeft) ]

\* the branch taken for seamless AAC stitching: tempo first, bounds rescaled
SeamlessTrimAndTempo(playbackRate, trimLeft, trimRightOrAssetDuration) ==
    LET actualTrimLeft  == Div(trimLeft, playbackRate)
        actualTrimRight == Div(trimRightOrAssetDuration, playbackRate)
    IN  [ threw           |-> FALSE,
          filter          |-> << calculateATempo(playbackRate),
                                 <<"a", "t", "r", "i", "m", "=">> \o stringifyTrim(actualTrimLeft)
                                    \o <<":">> \o stringifyTrim(actualTrimRight) >>,
          actualTrimLeft  |-> actualTrimLeft,
          audibleDuration |-> Sub(actualTrimRight, actualTrimLeft) ]

\* mutant: in default mode the bounds of the trim are rescaled too
DefaultBoundsRescaled(playbackRate, trimLeft, trimRightOrAssetDuration) ==
    [ threw           |-> FALSE,
      filter          |-> << <<"a", "t", "r", "i", "m", "=">> \o stringifyTrim(Div(trimLeft, playbackRate))
                                \o <<":">> \o stringifyTrim(Div(trimRightOrAssetDuration,
                                                            playbackRate)),
                             calculateATempo(playbackRate) >>,
      actualTrimLeft  |-> trimLeft,
      audibleDuration |-> Div(Sub(trimRightOrAssetDuration, trimLeft),
                              playbackRate) ]

\* the other branch: trim first, then the tempo
DefaultTrimAndTempo(playbackRate, trimLeft, trimRightOrAssetDuration) ==
    [ threw           |-> FALSE,
      filter          |-> << <<"a", "t", "r", "i", "m", "=">> \o stringifyTrim(trimLeft)
                                \o <<":">> \o stringifyTrim(trimRightOrAssetDuration),
                             calculateATempo(playbackRate) >>,
      actualTrimLeft  |-> trimLeft,
      audibleDuration |-> Div(Sub(trimRightOrAssetDuration, trimLeft),
                              playbackRate) ]

\* mutant: the second `if` repeats the condition of the first
SecondBranchRepeatsFirst(forSeamlessAacConcatenation) ==
    forSeamlessAacConcatenation

\* the condition of the second `if`
SecondBranchTaken(forSeamlessAacConcatenation) == ~forSeamlessAacConcatenation

\* throw new Error('This should never happen')
NeverHappen ==
    [ threw |-> TRUE, filter |-> <<>>,
      actualTrimLeft |-> Null, audibleDuration |-> Null ]

trimAndSetTempo(playbackRate, trimLeft, trimRight, forSeamlessAacConcatenation, assetDuration) ==
    LET trimRightOrAssetDuration ==
            TrimRightOrAssetDuration(trimRight, assetDuration)
    IN  IF forSeamlessAacConcatenation
        THEN SeamlessTrimAndTempo(playbackRate, trimLeft,
                                  trimRightOrAssetDuration)
        ELSE IF SecondBranchTaken(forSeamlessAacConcatenation)
        THEN DefaultTrimAndTempo(playbackRate, trimLeft,
                                 trimRightOrAssetDuration)
        ELSE NeverHappen

----------------------------------------------------------------------------
(* stringifyFfmpegFilter *)

\* mutant: no asset is ever trimmed away
IsTrimmedAwayNever(assetDuration, trimLeft) == FALSE

\* the asset is trimmed away entirely: return null
IsTrimmedAway(assetDuration, trimLeft) ==
    TruthyNumber(assetDuration) /\ Ge(trimLeft, assetDuration)

\* mutant: a toneFrequency of 0 passes the validation
InvalidToneFrequencyZeroPasses(toneFrequency) ==
    ~IsNull(toneFrequency)
        /\ (Lt(toneFrequency, Zero) \/ Gt(toneFrequency, Int2Num(2)))

\* the validation of toneFrequency
InvalidToneFrequency(toneFrequency) ==
    ~IsNull(toneFrequency)
        /\ (Le(toneFrequency, Zero) \/ Gt(toneFrequency, Int2Num(2)))

ToneFrequencyError == "toneFrequency must be a positive number between 0.01 and 2"

NeverHappenError == "This should never happen"

\* the tolerance of the end padding, 0.0000001
PadTolerance == Norm(1, 1, -7)

SampleRateString == NumberToString(Int2Num(DEFAULT_SAMPLE_RATE))

\* mutant: the volume clause is emitted for the identity too
VolumeClauseAlways(volumeFilter) ==
    <<"v", "o", "l", "u", "m", "e", "=">> \o volumeFilter.value \o <<":", "e", "v", "a", "l", "=">> \o volumeFilter.eval

VolumeClause(volumeFilter) ==
    IF volumeFilter.value = <<"1">> THEN NullString
    ELSE <<"v", "o", "l", "u", "m", "e", "=">> \o volumeFilter.value \o <<":", "e", "v", "a", "l", "=">> \o volumeFilter.eval

\* mutant: the tone clause is emitted for a toneFrequency of 1 too
ToneClauseForOneToo(toneFrequency) ==
    IF TruthyNumber(toneFrequency)
    THEN <<"a", "s", "e", "t", "r", "a", "t", "e", "=">> \o SampleRateString \o <<"*">>
            \o NumberToString(toneFrequency)
            \o <<",", "a", "r", "e", "s", "a", "m", "p", "l", "e", "=">> \o SampleRateString
            \o <<",", "a", "t", "e", "m", "p", "o", "=", "1", "/">> \o NumberToString(toneFrequency)
    ELSE NullString

ToneClause(toneFrequency) ==
    IF TruthyNumber(toneFrequency) /\ ~Eq(toneFrequency, One)
    THEN <<"a", "s", "e", "t", "r", "a", "t", "e", "=">> \o SampleRateString \o <<"*">>
            \o NumberToString(toneFrequency)
            \o <<",", "a", "r", "e", "s", "a", "m", "p", "l", "e", "=">> \o SampleRateString
            \o <<",", "a", "t", "e", "m", "p", "o", "=", "1", "/">> \o NumberToString(toneFrequency)
    ELSE NullString

\* mutant: the tolerance is compared with >=
PadEndInclusive(padAtEnd) ==
    IF Ge(padAtEnd, PadTolerance)
    THEN <<"a", "p", "a", "d", "=", "p", "a", "d", "_", "l", "e", "n", "=">>
            \o NumberToString(MathRound(Mul(padAtEnd,
                                            Int2Num(DEFAULT_SAMPLE_RATE))))
    ELSE NullString

\* mutant: the number of samples is rounded up
PadEndRoundsUp(padAtEnd) ==
    IF Gt(padAtEnd, PadTolerance)
    THEN <<"a", "p", "a", "d", "=", "p", "a", "d", "_", "l", "e", "n", "=">>
            \o NumberToString(Int2Num(0 - Floor(Neg(Mul(padAtEnd,
                                  Int2Num(DEFAULT_SAMPLE_RATE))))))
    ELSE NullString

PadEnd(padAtEnd) ==
    IF Gt(padAtEnd, PadTolerance)
    THEN <<"a", "p", "a", "d", "=", "p", "a", "d", "_", "l", "e", "n", "=">>
            \o NumberToString(MathRound(Mul(padAtEnd,
                                            Int2Num(DEFAULT_SAMPLE_RATE))))
    ELSE NullString

\* mutant: one delay per channel, not one more
PadStartPerChannel(startInVideoSeconds, channels) ==
    IF startInVideoSeconds.n = 0 THEN NullString
    ELSE <<"a", "d", "e", "l", "a", "y", "=">>
            \o Join(Fill(channels,
                         ToFixed0(Mul(startInVideoSeconds, Int2Num(1000)))),
                    <<"|">>)

PadStart(startInVideoSeconds, channels) ==
    IF startInVideoSeconds.n = 0 THEN NullString
    ELSE <<"a", "d", "e", "l", "a", "y", "=">>
            \o Join(Fill(channels + 1,
                         ToFixed0(Mul(startInVideoSeconds, Int2Num(1000)))),
                    <<"|">>)

\* mutant: a stage without a clause is joined as an empty clause
FilterStringKeepsEmpty(trimAndTempoFilter, volumeFilter, toneFrequency) ==
    LET parts == << <<"a", "f", "o", "r", "m", "a", "t", "=", "s", "a", "m", "p", "l", "e", "_", "f", "m", "t", "s", "=", "s", "3", "2", ":", "s", "a", "m", "p", "l", "e", "_", "r", "a", "t", "e", "s", "=">> \o SampleRateString >>
                    \o trimAndTempoFilter
                    \o << VolumeClause(volumeFilter), ToneClause(toneFrequency) >>
    IN  <<"[", "0", ":", "a", "]">>
            \o Join([ i \in 1..Len(parts) |->
                        IF truthy(parts[i]) THEN parts[i] ELSE EmptyString ],
                    <<",">>)
            \o <<"[", "a", "0", "]">>

\* the filter string: the truthy clauses, joined, between the two labels
FilterString(trimAndTempoFilter, volumeFilter, toneFrequency) ==
    <<"[", "0", ":", "a", "]">>
        \o Join(FilterTruthy(
                  << <<"a", "f", "o", "r", "m", "a", "t", "=", "s", "a", "m", "p", "l", "e", "_", "f", "m", "t", "s", "=", "s", "3", "2", ":", "s", "a", "m", "p", "l", "e", "_", "r", "a", "t", "e", "s", "=">> \o SampleRateString >>
                    \o trimAndTempoFilter
                    \o << VolumeClause(volumeFilter), ToneClause(toneFrequency) >>),
                <<",">>)
        \o <<"[", "a", "0", "]">>

\* trimAndSetTempo and ffmpegVolumeExpression not reached
NotCalled ==
    [ called |-> FALSE, threw |-> FALSE, filter |-> <<>>,
      actualTrimLeft |-> Null, audibleDuration |-> Null ]

NoVolumeCall ==
    [ called |-> FALSE, volume |-> "", fps |-> Null, trimLeft |-> Null,
      allowAmplificationDuringRender |-> FALSE,
      answer |-> [value |-> EmptyString, eval |-> EmptyString] ]

Outcome(outcome, error, filter, pad_end, pad_start, tt, vc) ==
    [ outcome |-> outcome, error |-> error, filter |-> filter,
      pad_end |-> pad_end, pad_start |-> pad_start,
      trimAndTempo |-> tt, volumeCall |-> vc ]

\* mutant: the volume service is given the trimLeft of the request
VolumeExpressionCallRequestTrimLeft(req, actualTrimLeft, volumeFilter) ==
    [ called |-> TRUE, volume |-> req.volume, fps |-> req.fps,
      trimLeft |-> req.trimLeft,
      allowAmplificationDuringRender |-> req.allowAmplificationDuringRender,
      answer |-> volumeFilter ]

\* the call ffmpegVolumeExpression({volume, fps, trimLeft: actualTrimLeft,
\* allowAmplificationDuringRender}), which answers volumeFilter
VolumeExpressionCall(req, actualTrimLeft, volumeFilter) ==
    [ called |-> TRUE, volume |-> req.volume, fps |-> req.fps,
      trimLeft |-> actualTrimLeft,
      allowAmplificationDuringRender |-> req.allowAmplificationDuringRender,
      answer |-> volumeFilter ]

\* the rest of the call once trimAndSetTempo has answered tt: the call of
\* ffmpegVolumeExpression, which answers volumeFilter, and the returned object
Assemble(req, volumeFilter, startInVideoSeconds, tt, padAtEnd) ==
    Outcome("value", "",
            FilterString(tt.filter, volumeFilter, req.toneFrequency),
            PadEnd(padAtEnd),
            PadStart(startInVideoSeconds, req.channels),
            [ called |-> TRUE, threw |-> FALSE, filter |-> tt.filter,
              actualTrimLeft |-> tt.actualTrimLeft,
              audibleDuration |-> tt.audibleDuration ],
            VolumeExpressionCall(req, tt.actualTrimLeft, volumeFilter))

AfterTrimAndSetTempo(req, volumeFilter, startInVideoSeconds, tt) ==
    IF tt.threw
    THEN Outcome("throw", NeverHappenError, NullString, NullString, NullString,
                 [ called |-> TRUE, threw |-> TRUE, filter |-> tt.filter,
                   actualTrimLeft |-> tt.actualTrimLeft,
                   audibleDuration |-> tt.audibleDuration ],
                 NoVolumeCall)
    ELSE Assemble(req, volumeFilter, startInVideoSeconds, tt,
                  Sub(Sub(req.chunkLengthInSeconds, tt.audibleDuration),
                      startInVideoSeconds))

\* one call: what it returns or throws (outcome "value", "null" or "throw"),
\* with the values of its locals; volumeFilter is the answer of
\* ffmpegVolumeExpression to the call recorded in volumeCall
stringifyFfmpegFilter(req, volumeFilter) ==
    IF IsTrimmedAway(req.assetDuration, req.trimLeft)
    THEN Outcome("null", "", NullString, NullString, NullString,
                 NotCalled, NoVolumeCall)
    ELSE IF InvalidToneFrequency(req.toneFrequency)
    THEN Outcome("throw", ToneFrequencyError, NullString, NullString,
                 NullString, NotCalled, NoVolumeCall)
    ELSE AfterTrimAndSetTempo(
             req, volumeFilter, Div(req.startInVideo, req.fps),
             trimAndSetTempo(req.playbackRate, req.trimLeft, req.trimRight,
                             req.forSeamlessAacConcatenation,
                             req.assetDuration))

----------------------------------------------------------------------------
(* The requests the model draws *)

MaxTrim == 2

MaxAssetDuration == 2

MaxChannels == 2

MaxChunkLength == 2

TrimValues == { Int2Num(i) : i \in 0..MaxTrim }

PlaybackRates == { Num(1, 2), One, Int2Num(2), Int2Num(3) }

AssetDurations == { Null } \cup { Int2Num(i) : i \in 0..MaxAssetDuration }

StartFrames == { Zero, One, Int2Num(30) }

FpsValues == { Int2Num(30) }

ToneFrequencies == { Null, Zero, One, Int2Num(2), Int2Num(3) }

\* whole seconds, and one second plus 5e-8, 1e-7 and 1e-5
ChunkLengths ==
    { Int2Num(i) : i \in 1..MaxChunkLength }
        \cup { Add(One, Norm(5, 1, -8)), Add(One, Norm(1, 1, -7)),
               Add(One, Norm(1, 1, -5)) }

\* the volume descriptor with the amplification flag, both only forwarded
VolumeOptions ==
    { [volume |-> "constant", allowAmplificationDuringRender |-> FALSE],
      [volume |-> "perFrame", allowAmplificationDuringRender |-> TRUE] }

\* Requests that vary what the validation and the clauses of the filter read:
\* the trim window (trimLeft <= trimRight, the window of normal use), the
\* asset, the tone, the rate, the mode, the volume and the frame rate; placed
\* at the start of the longest chunk, on one channel.
Requests ==
    { r \in [ trimLeft : TrimValues,
              trimRight : TrimValues,
              channels : {1},
              startInVideo : {Zero},
              volume : { o.volume : o \in VolumeOptions },
              fps : FpsValues \cup { Int2Num(25) },
              playbackRate : PlaybackRates,
              assetDuration : AssetDurations,
              allowAmplificationDuringRender : BOOLEAN,
              toneFrequency : ToneFrequencies,
              chunkLengthInSeconds : {Int2Num(MaxChunkLength)},
              forSeamlessAacConcatenation : BOOLEAN ] :
        /\ Le(r.trimLeft, r.trimRight)
        /\ [ volume |-> r.volume,
             allowAmplificationDuringRender |->
                 r.allowAmplificationDuringRender ] \in VolumeOptions }

\* Requests that vary what the timing reads: the trim window, the asset, the
\* rate, the mode, the start, the channels and the chunk; no tone, a constant
\* volume.
TimingRequests ==
    { r \in [ trimLeft : TrimValues,
              trimRight : TrimValues,
              channels : 1..MaxChannels,
              startInVideo : StartFrames,
              volume : {"constant"},
              fps : FpsValues,
              playbackRate : PlaybackRates,
              assetDuration : AssetDurations,
              allowAmplificationDuringRender : {FALSE},
              toneFrequency : {Null},
              chunkLengthInSeconds : ChunkLengths,
              forSeamlessAacConcatenation : BOOLEAN ] :
        Le(r.trimLeft, r.trimRight) }

----------------------------------------------------------------------------
(* The state machine: a request is built, then stringifyFfmpegFilter runs *)

VARIABLES request, phase, result

vars == <<request, phase, result>>

NoResult ==
    Outcome("none", "", NullString, NullString, NullString,
            NotCalled, NoVolumeCall)

Init ==
    /\ request \in Requests
    /\ phase = "built"
    /\ result = NoResult

StringifyFfmpegFilter ==
    /\ phase = "built"
    /\ \E volumeFilter \in VolumeFilters :
          result' = stringifyFfmpegFilter(request, volumeFilter)
    /\ phase' = "returned"
    /\ UNCHANGED request

Next == StringifyFfmpegFilter

Spec == Init /\ [][Next]_vars

InitTiming ==
    /\ request \in TimingRequests
    /\ phase = "built"
    /\ result = NoResult

SpecTiming == InitTiming /\ [][Next]_vars

----------------------------------------------------------------------------
(* trimAndSetTempo on its own: the arguments are drawn, then it runs *)

\* the trim bounds of a call: those of the requests, and ten seconds
TrimArguments == TrimValues \cup { Int2Num(10) }

TrimAndSetTempoCalls ==
    [ playbackRate : PlaybackRates,
      trimLeft : TrimArguments,
      trimRight : TrimArguments,
      forSeamlessAacConcatenation : BOOLEAN,
      assetDuration : AssetDurations ]

InitTrimAndSetTempo ==
    /\ request \in TrimAndSetTempoCalls
    /\ phase = "built"
    /\ result = NoResult

TrimAndSetTempo ==
    /\ phase = "built"
    /\ result' = trimAndSetTempo(request.playbackRate, request.trimLeft,
                                 request.trimRight,
                                 request.forSeamlessAacConcatenation,
                                 request.assetDuration)
    /\ phase' = "returned"
    /\ UNCHANGED request

NextTrimAndSetTempo == TrimAndSetTempo

SpecTrimAndSetTempo == InitTrimAndSetTempo /\ [][NextTrimAndSetTempo]_vars

----------------------------------------------------------------------------
(* stringifyTrim on its own: a duration is drawn, then it is formatted *)

\* durations go down to 10^-MaxSmallness seconds
MaxSmallness == 14

\* the leading digits of the durations: 1, 5, 6, 25 and a third
TrimMantissas == { One, Int2Num(5), Int2Num(6), Int2Num(25), Num(1, 3) }

\* zero, and plus and minus each mantissa times 10^-k seconds
TrimDurations ==
    { Zero } \cup
    { Norm(s * m.n, m.d, m.e - k) :
        s \in {1, -1}, m \in TrimMantissas, k \in 0..MaxSmallness }

InitStringifyTrim ==
    /\ request \in TrimDurations
    /\ phase = "built"
    /\ result = NoResult

StringifyTrim ==
    /\ phase = "built"
    /\ result' = stringifyTrim(request)
    /\ phase' = "returned"
    /\ UNCHANGED request

NextStringifyTrim == StringifyTrim

SpecStringifyTrim == InitStringifyTrim /\ [][NextStringifyTrim]_vars

----------------------------------------------------------------------------

(* selectComposition: the options are drawn, then it runs *)

\* an option that was not given
Undefined == "undefined"

\* x is null or undefined
Nullish(x) == x \in {Undefined, "null"}

\* a ?? b
Coalesce(a, b) == IF Nullish(a) THEN b ELSE a

\* Boolean(x) of an option: a boolean, a string, null or undefined
TruthyOption(x) == x \notin {Undefined, "null", "false", ""}

\* the levels a caller may give
LogLevels == {"verbose", "info", "warn", "error"}

\* logLevel ?? verbose ? 'verbose' : 'info', in which ?? binds tighter than
\* the conditional: (logLevel ?? verbose) ? 'verbose' : 'info'
ForwardedLogLevel(logLevel, verbose) ==
    IF TruthyOption(Coalesce(logLevel, verbose)) THEN "verbose" ELSE "info"

\* the options selectComposition hands to internalSelectComposition
ForwardedOptions(options) ==
    [ browserExecutable |-> Coalesce(options.browserExecutable, "null"),
      port |-> Coalesce(options.port, "null"),
      timeoutInMilliseconds |->
          Coalesce(options.timeoutInMilliseconds, "DEFAULT_TIMEOUT"),
      logLevel |-> ForwardedLogLevel(options.logLevel, options.verbose),
      indent |-> "false",
      server |-> Undefined ]

SelectCompositionOptions ==
    [ browserExecutable : {Undefined, "/usr/bin/chromium"},
      port : {Undefined, "null", "3000"},
      timeoutInMilliseconds : {Undefined, "1000"},
      verbose : {Undefined, "true", "false"},
      logLevel : {Undefined} \cup LogLevels ]

InitSelectComposition ==
    /\ request \in SelectCompositionOptions
    /\ phase = "built"
    /\ result = NoResult

\* internalSelectComposition answers with the data, whose metadata is
\* returned, or fails, and the failure is the caller's
SelectComposition ==
    /\ phase = "built"
    /\ \E answer \in {"metadata", "throw"} :
          result' = [ forwarded |-> ForwardedOptions(request),
                      outcome |-> answer ]
    /\ phase' = "returned"
    /\ UNCHANGED request

NextSelectComposition == SelectComposition

SpecSelectComposition == InitSelectComposition /\ [][NextSelectComposition]_vars

----------------------------------------------------------------------------

(* internalSelectCompositionRaw: the promise chain, one action per step *)

\* the cleanup functions the call can register: () => cleanupPage(), what
\* handleJavascriptException returns, () => cleanupServer(true)
CleanupFns == {"cleanupPage", "removeExceptionHandler", "cleanupServer"}

InternalSelectCompositionOptions ==
    [ puppeteerInstance : {Undefined, "browser"},
      server : {Undefined, "server"} ]

\* the state of a call: the cleanup array, the promise it returns (state and
\* what settled it), how often each cleanup function was invoked, and the
\* promise each invocation returned ("failed" is rejected, caught and logged)
CallStarted ==
    [ cleanup |-> <<>>,
      promise |-> [state |-> "none", by |-> ""],
      invoked |-> [c \in CleanupFns |-> 0],
      returned |-> [c \in CleanupFns |-> "none"] ]

\* resolve(value) and reject(err): the first to come settles the promise
Settle(promise, state, by) ==
    IF promise.state = "pending" THEN [state |-> state, by |-> by]
    ELSE promise

\* mutant: the last registered cleanup function is left out
InvokeAllButLast(call) ==
    LET called == { call.cleanup[i] : i \in 1..(Len(call.cleanup) - 1) }
    IN  [ call EXCEPT
            !.invoked = [c \in CleanupFns |->
                           IF c \in called THEN @[c] + 1 ELSE @[c]],
            !.returned = [c \in CleanupFns |->
                            IF c \in called THEN "pending" ELSE @[c]] ]

\* cleanup.forEach((c) => c().catch(...)): every registered function is
\* invoked and returns a promise
InvokeAll(call) ==
    LET called == { call.cleanup[i] : i \in 1..Len(call.cleanup) }
    IN  [ call EXCEPT
            !.invoked = [c \in CleanupFns |->
                           IF c \in called THEN @[c] + 1 ELSE @[c]],
            !.returned = [c \in CleanupFns |->
                            IF c \in called THEN "pending" ELSE @[c]] ]

InitInternalSelectComposition ==
    /\ request \in InternalSelectCompositionOptions
    /\ phase = "getPageAndCleanupFn"
    /\ result = CallStarted

\* getPageAndCleanupFn fails: the call rejects before anything is registered
PageFails ==
    /\ phase = "getPageAndCleanupFn"
    /\ result' = [result EXCEPT
                    !.promise = [state |-> "rejected",
                                 by |-> "getPageAndCleanupFn"]]
    /\ phase' = "done"
    /\ UNCHANGED request

\* getPageAndCleanupFn answers: the page cleanup is registered, the promise
\* is created, the exception handler is installed and its removal
\* registered, and makeOrReuseServer is called
PageAcquired ==
    /\ phase = "getPageAndCleanupFn"
    /\ result' = [result EXCEPT
                    !.cleanup = <<"cleanupPage", "removeExceptionHandler">>,
                    !.promise = [state |-> "pending", by |-> ""]]
    /\ phase' = "makeOrReuseServer"
    /\ UNCHANGED request

\* onError, called on a JavaScript exception of the page or on an error of
\* the server while the chain waits: reject(err)
OnError ==
    /\ phase \in {"makeOrReuseServer", "innerSelectComposition"}
    /\ \E source \in {"pageException", "serverError"} :
          result' = [result EXCEPT
                       !.promise = Settle(@, "rejected", source)]
    /\ UNCHANGED <<request, phase>>

\* makeOrReuseServer answers: the server cleanup is registered and
\* innerSelectComposition is called
ServerObtained ==
    /\ phase = "makeOrReuseServer"
    /\ result' = [result EXCEPT !.cleanup = Append(@, "cleanupServer")]
    /\ phase' = "innerSelectComposition"
    /\ UNCHANGED request

\* makeOrReuseServer fails: both then callbacks are skipped
ServerFails ==
    /\ phase = "makeOrReuseServer"
    /\ phase' = "catch"
    /\ UNCHANGED <<request, result>>

InnerSelectCompositionAnswers ==
    /\ phase = "innerSelectComposition"
    /\ phase' = "then"
    /\ UNCHANGED <<request, result>>

InnerSelectCompositionFails ==
    /\ phase = "innerSelectComposition"
    /\ phase' = "catch"
    /\ UNCHANGED <<request, result>>

\* .then((data) => resolve(data))
ThenResolve ==
    /\ phase = "then"
    /\ result' = [result EXCEPT !.promise = Settle(@, "resolved", "data")]
    /\ phase' = "finally"
    /\ UNCHANGED request

\* .catch((err) => reject(err))
CatchReject ==
    /\ phase = "catch"
    /\ result' = [result EXCEPT !.promise = Settle(@, "rejected", "chain")]
    /\ phase' = "finally"
    /\ UNCHANGED request

\* .finally(() => cleanup.forEach(...))
Finally ==
    /\ phase = "finally"
    /\ result' = InvokeAll(result)
    /\ phase' = "done"
    /\ UNCHANGED request

\* the promise of an invoked cleanup function settles; a rejection is caught
\* and logged
CleanupSettles ==
    /\ \E c \in CleanupFns :
          /\ result.returned[c] = "pending"
          /\ \E outcome \in {"fulfilled", "failed"} :
                result' = [result EXCEPT !.returned[c] = outcome]
    /\ UNCHANGED <<request, phase>>

NextInternalSelectComposition ==
    \/ PageFails
    \/ PageAcquired
    \/ OnError
    \/ ServerObtained
    \/ ServerFails
    \/ InnerSelectCompositionAnswers
    \/ InnerSelectCompositionFails
    \/ ThenResolve
    \/ CatchReject
    \/ Finally
    \/ CleanupSettles

SpecInternalSelectComposition ==
    InitInternalSelectComposition /\ [][NextInternalSelectComposition]_vars

\* every awaited service answers or fails, and every callback of a settled
\* promise is run; nothing obliges onError to be called
FairSpecInternalSelectComposition ==
    /\ SpecInternalSelectComposition
    /\ WF_vars(PageFails \/ PageAcquired)
    /\ WF_vars(ServerObtained \/ ServerFails)
    /\ WF_vars(InnerSelectCompositionAnswers \/ InnerSelectCompositionFails)
    /\ WF_vars(ThenResolve)
    /\ WF_vars(CatchReject)
    /\ WF_vars(Finally)
    /\ WF_vars(CleanupSettles)

----------------------------------------------------------------------------
(* makeSearchResults of the studio menu: a structure is drawn, the results *)
(* are made, then one of them is selected                                  *)

\* subMenu: null
NoSubMenu == [present |-> FALSE, items |-> <<>>]

SubMenu(items) == [present |-> TRUE, items |-> items]

\* {type: 'divider'}
Divider ==
    [ type |-> "divider", id |-> "", label |-> EmptyString,
      quickSwitcherLabel |-> NullString, subMenu |-> NoSubMenu ]

\* a SelectionItem; its onClick is known by the id it is called with
Item(id, label, quickSwitcherLabel, subMenu) ==
    [ type |-> "item", id |-> id, label |-> label,
      quickSwitcherLabel |-> quickSwitcherLabel, subMenu |-> subMenu ]

\* what stands for null in an array of results
NullResult ==
    [ type |-> "null", id |-> "", onSelected |-> <<>>, title |-> EmptyString ]

\* mutant: the quickSwitcherLabel is ignored
getItemLabelIgnoresQuickSwitcher(item) == item.label

\* the label is a string in every item of the structure
getItemLabel(item) ==
    IF item.quickSwitcherLabel # NullString THEN item.quickSwitcherLabel
    ELSE item.label

\* Array.prototype.flat of an array of arrays; an element that is null is
\* given as the array of the one NullResult, which flat leaves in place
RECURSIVE Flat(_)
Flat(arrays) ==
    IF Len(arrays) = 0 THEN <<>> ELSE arrays[1] \o Flat(Tail(arrays))

\* Array.prototype.filter(NoReactInternals.truthy) of an array of results
FilterTruthyResults(results) ==
    SelectSeq(results, LAMBDA r : r.type # "null")

\* the two calls of onSelected, in their order
OnSelected(item) ==
    << [fn |-> "setSelectedModal", arg |-> "null"],
       [fn |-> "onClick", arg |-> item.id] >>

RECURSIVE itemToSearchResult(_, _)
itemToSearchResult(item, prefixes) ==
    IF item.subMenu.present
    THEN FilterTruthyResults(Flat(
             [ i \in 1..Len(item.subMenu.items) |->
                 LET subItem == item.subMenu.items[i]
                 IN  IF subItem.type = "divider" THEN <<NullResult>>
                     ELSE itemToSearchResult(
                              subItem, Append(prefixes, getItemLabel(item))) ]))
    ELSE << [ type |-> "menu-item",
              id |-> item.id,
              onSelected |-> OnSelected(item),
              title |-> Join(Append(prefixes, getItemLabel(item)),
                             <<":", " ">>) ] >>

makeSearchResults(actions) ==
    FilterTruthyResults(Flat(
        [ m \in 1..Len(actions) |->
            Flat([ i \in 1..Len(actions[m].items) |->
                     LET item == actions[m].items[i]
                     IN  IF item.type = "divider" THEN <<NullResult>>
                         ELSE itemToSearchResult(item, <<>>) ]) ]))

\* items nest at most MaxDepth sub-menus deep
MaxDepth == 2

\* a divider, an item with its label only, an item with a quickSwitcherLabel
LeafItems ==
    { Divider,
      Item("a", <<"A">>, NullString, NoSubMenu),
      Item("q", <<"B">>, <<"Q">>, NoSubMenu) }

\* the items of depth at most d: the leaves, and items with a sub-menu that
\* is empty, or holds one item of depth d - 1, alone, after a divider or
\* before another item
RECURSIVE ItemsOfDepth(_)
ItemsOfDepth(d) ==
    IF d = 0 THEN LeafItems
    ELSE LET below == ItemsOfDepth(d - 1)
             other == Item("c", <<"C">>, NullString, NoSubMenu)
             menus == { <<>> } \cup { <<x>> : x \in below }
                        \cup { <<Divider, x>> : x \in below }
                        \cup { <<x, other>> : x \in below }
         IN  below
               \cup { Item("m", <<"M">>, NullString, SubMenu(items)) :
                        items \in menus }
               \cup { Item("n", <<"M">>, <<"N">>, SubMenu(items)) :
                        items \in menus }

Menu(id, items) == [id |-> id, items |-> items]

\* one menu of one item of any depth, one menu of two items, two menus
Structures ==
    { << Menu("file", <<x>>) >> : x \in ItemsOfDepth(MaxDepth) }
      \cup { << Menu("file", <<x, y>>) >> :
               x, y \in ItemsOfDepth(MaxDepth - 1) }
      \cup { << Menu("file", <<x>>), Menu("view", <<y>>) >> :
               x, y \in ItemsOfDepth(MaxDepth - 1) }

\* the results made, the result selected (0: none yet) and the calls that
\* selecting it made
NoSearchResults == [results |-> <<>>, selected |-> 0, calls |-> <<>>]

InitMakeSearchResults ==
    /\ request \in Structures
    /\ phase = "built"
    /\ result = NoSearchResults

MakeSearchResults ==
    /\ phase = "built"
    /\ result' = [NoSearchResults EXCEPT
                    !.results = makeSearchResults(request)]
    /\ phase' = "returned"
    /\ UNCHANGED request

\* the quick switcher calls onSelected of one of the results
SelectResult ==
    /\ phase = "returned"
    /\ \E i \in 1..Len(result.results) :
          result' = [result EXCEPT !.selected = i,
                                   !.calls = result.results[i].onSelected]
    /\ phase' = "selected"
    /\ UNCHANGED request

NextMakeSearchResults == MakeSearchResults \/ SelectResult

SpecMakeSearchResults == InitMakeSearchResults /\ [][NextMakeSearchResults]_vars

----------------------------------------------------------------------------
(* Reading a result back: the numbers a directive carries *)

IsDigitString(s) ==
    Len(s) > 0 /\ \A i \in 1..Len(s) : \E k \in 1..10 : s[i] = DigitChars[k]

DigitValue(c) == (CHOOSE k \in 1..10 : DigitChars[k] = c) - 1

RECURSIVE ParseNat(_)
ParseNat(s) ==
    IF Len(s) = 0 THEN 0
    ELSE 10 * ParseNat(SubSeq(s, 1, Len(s) - 1)) + DigitValue(s[Len(s)])

StartsWith(s, prefix) ==
    Len(s) >= Len(prefix) /\ SubSeq(s, 1, Len(prefix)) = prefix

AfterPrefix(s, prefix) == SubSeq(s, Len(prefix) + 1, Len(s))

\* the fields of s between the separator characters c
RECURSIVE SplitAt(_, _)
SplitAt(s, c) ==
    IF \A i \in 1..Len(s) : s[i] # c THEN <<s>>
    ELSE LET i == CHOOSE j \in 1..Len(s) :
                      s[j] = c /\ \A k \in 1..(j - 1) : s[k] # c
         IN  <<SubSeq(s, 1, i - 1)>> \o SplitAt(SubSeq(s, i + 1, Len(s)), c)

Occurrences(s, pat) ==
    Cardinality({ i \in 1..(Len(s) - Len(pat) + 1) :
                    SubSeq(s, i, i + Len(pat) - 1) = pat })

AbsNum(x) == IF x.n < 0 THEN Neg(x) ELSE x

Returned == phase = "returned"

ReturnedValue == phase = "returned" /\ result.outcome = "value"

\* the sample rate and one sample, in seconds
SampleRate == Int2Num(DEFAULT_SAMPLE_RATE)

OneSample == Div(One, SampleRate)

\* startInVideo / fps of the request
StartSeconds == Div(request.startInVideo, request.fps)

\* the delay pad_start encodes, in seconds (0 when pad_start is null)
EncodedDelay ==
    IF result.pad_start = NullString THEN Zero
    ELSE Div(Int2Num(ParseNat(SplitAt(AfterPrefix(result.pad_start, <<"a", "d", "e", "l", "a", "y", "=">>),
                                      "|")[1])),
             Int2Num(1000))

\* the padding pad_end encodes, in seconds (0 when pad_end is null)
EncodedEndPadding ==
    IF result.pad_end = NullString THEN Zero
    ELSE Div(Int2Num(ParseNat(AfterPrefix(result.pad_end, <<"a", "p", "a", "d", "=", "p", "a", "d", "_", "l", "e", "n", "=">>))),
             SampleRate)

\* chunkLengthInSeconds - audibleDuration - startInVideo / fps
PadAtEndOfRequest ==
    Sub(Sub(request.chunkLengthInSeconds, result.trimAndTempo.audibleDuration),
        StartSeconds)

AssetDurationKnown == ~IsNull(request.assetDuration)

ToneOutOfRange ==
    /\ ~IsNull(request.toneFrequency)
    /\ \/ Le(request.toneFrequency, Zero)
       \/ Gt(request.toneFrequency, Int2Num(2))

----------------------------------------------------------------------------
(* The claims *)

\* C1: a request whose assetDuration is known (0 included) and whose trimLeft
\* is at least assetDuration is answered with null, and every other request
\* with a fragment or an error.
C1_NullIffTrimmedAway ==
    Returned =>
        (result.outcome = "null"
            <=> (AssetDurationKnown
                    /\ Ge(request.trimLeft, request.assetDuration)))

\* C2, as stated: a toneFrequency outside (0, 2] always ends in the
\* validation error, whatever trimLeft and assetDuration are.
C2_InvalidToneAlwaysThrows ==
    (Returned /\ ToneOutOfRange) =>
        (result.outcome = "throw" /\ result.error = ToneFrequencyError)

\* C2, amended: a toneFrequency outside (0, 2] ends in the validation error
\* unless the asset is trimmed away (assetDuration non-null and non-zero,
\* trimLeft >= assetDuration), which is answered with null first; it never
\* yields a fragment.
C2_InvalidToneThrowsUnlessTrimmedAway ==
    (Returned /\ ToneOutOfRange) =>
        IF AssetDurationKnown /\ request.assetDuration.n # 0
              /\ Ge(request.trimLeft, request.assetDuration)
        THEN result.outcome = "null"
        ELSE result.outcome = "throw" /\ result.error = ToneFrequencyError

C2_Witness ==
    /\ Returned /\ ToneOutOfRange
    /\ request.toneFrequency = Int2Num(3)
    /\ AssetDurationKnown /\ Lt(request.trimLeft, request.assetDuration)
    /\ result.outcome = "throw"

\* C3: with toneFrequency null or in (0, 2], in both modes, the call raises
\* nothing: it returns a fragment or null, and 'This should never happen' is
\* raised in no call at all.
C3_NoErrorOfItsOwn ==
    Returned =>
        /\ result.error # NeverHappenError
        /\ ~ToneOutOfRange => result.outcome \in {"value", "null"}

C3_Witness ==
    /\ Returned
    /\ request.toneFrequency = Int2Num(2)
    /\ ~request.forSeamlessAacConcatenation
    /\ result.outcome = "value"
    /\ result.trimAndTempo.called

\* C4: for every fragment, the delay of pad_start plus audibleDuration plus
\* the padding of pad_end equals chunkLengthInSeconds to within one sample.
C4_TotalLengthIsChunkLength ==
    ReturnedValue =>
        Le(AbsNum(Sub(Add(Add(EncodedDelay,
                              result.trimAndTempo.audibleDuration),
                          EncodedEndPadding),
                      request.chunkLengthInSeconds)),
           OneSample)

\* C5: for every fragment, the delay of pad_start differs from
\* startInVideo / fps by less than one sample.
C5_DelayIsStartInVideo ==
    ReturnedValue =>
        Lt(AbsNum(Sub(EncodedDelay, StartSeconds)), OneSample)

\* C6, as stated: for every fragment, audibleDuration is
\* (trimRight - trimLeft) / playbackRate, in both modes.
C6_AudibleDurationOfTrimWindow ==
    ReturnedValue =>
        Eq(result.trimAndTempo.audibleDuration,
           Div(Sub(request.trimRight, request.trimLeft), request.playbackRate))

\* C6, amended: for every fragment, audibleDuration is
\* (R - trimLeft) / playbackRate in both modes, where R is
\* min(trimRight, assetDuration) when assetDuration is non-null and non-zero
\* and trimRight otherwise.
C6_AudibleDurationOfClampedWindow ==
    ReturnedValue =>
        LET R == IF AssetDurationKnown /\ request.assetDuration.n # 0
                    /\ Lt(request.assetDuration, request.trimRight)
                 THEN request.assetDuration
                 ELSE request.trimRight
        IN  Eq(Mul(result.trimAndTempo.audibleDuration, request.playbackRate),
               Sub(R, request.trimLeft))

\* a window clamped to the asset, in seamless mode
C6_Witness ==
    /\ ReturnedValue
    /\ request.forSeamlessAacConcatenation
    /\ request.playbackRate = Int2Num(3)
    /\ request.trimLeft = Zero
    /\ request.trimRight = Int2Num(2)
    /\ request.assetDuration = One
    /\ result.trimAndTempo.audibleDuration = Num(1, 3)

C8_PadEnd ==
    ReturnedValue =>
        /\ result.pad_end = NullString
              <=> Le(PadAtEndOfRequest, Norm(1, 1, -7))
        /\ result.pad_end # NullString =>
              /\ StartsWith(result.pad_end, <<"a", "p", "a", "d", "=", "p", "a", "d", "_", "l", "e", "n", "=">>)
              /\ IsDigitString(AfterPrefix(result.pad_end, <<"a", "p", "a", "d", "=", "p", "a", "d", "_", "l", "e", "n", "=">>))
              /\ Le(AbsNum(Sub(Int2Num(ParseNat(AfterPrefix(result.pad_end,
                                                            <<"a", "p", "a", "d", "=", "p", "a", "d", "_", "l", "e", "n", "=">>))),
                               Mul(PadAtEndOfRequest, SampleRate))),
                    Num(1, 2))

\* a shortfall of two seconds is padded with 2 * 48000 samples
C8_Witness ==
    /\ ReturnedValue
    /\ PadAtEndOfRequest = Int2Num(2)
    /\ result.pad_end = <<"a", "p", "a", "d", "=", "p", "a", "d", "_", "l", "e", "n", "=", "9", "6", "0", "0", "0">>

\* C9: for every fragment, pad_start is null exactly when startInVideo / fps
\* is zero, and otherwise it is 'adelay=' followed by channels + 1 equal
\* values separated by '|', each the integer nearest to startInVideo / fps in
\* milliseconds.
C9_PadStart ==
    ReturnedValue =>
        /\ result.pad_start = NullString <=> Eq(StartSeconds, Zero)
        /\ result.pad_start # NullString =>
              /\ StartsWith(result.pad_start, <<"a", "d", "e", "l", "a", "y", "=">>)
              /\ LET values == SplitAt(AfterPrefix(result.pad_start, <<"a", "d", "e", "l", "a", "y", "=">>),
                                       "|")
                 IN  /\ Len(values) = request.channels + 1
                     /\ \A i \in 1..Len(values) :
                           /\ values[i] = values[1]
                           /\ IsDigitString(values[i])
                           /\ Le(AbsNum(Sub(Int2Num(ParseNat(values[i])),
                                            Mul(StartSeconds, Int2Num(1000)))),
                                 Num(1, 2))

\* one second in, two channels: three values of 1000
C9_Witness ==
    /\ ReturnedValue
    /\ request.startInVideo = request.fps
    /\ request.channels = 2
    /\ result.pad_start = <<"a", "d", "e", "l", "a", "y", "=", "1", "0", "0", "0", "|", "1", "0", "0", "0", "|", "1", "0", "0", "0">>

\* C10: for every fragment, the filter string holds no 'volume=' when the
\* volume service answers value "1", and exactly one clause
\* 'volume=<value>:eval=<eval>' when it answers any other value.
C10_VolumeClause ==
    ReturnedValue =>
        LET answer == result.volumeCall.answer
            clause == <<"v", "o", "l", "u", "m", "e", "=">> \o answer.value \o <<":", "e", "v", "a", "l", "=">> \o answer.eval
        IN  IF answer.value = <<"1">>
            THEN Occurrences(result.filter, <<"v", "o", "l", "u", "m", "e", "=">>) = 0
            ELSE /\ Occurrences(result.filter, <<"v", "o", "l", "u", "m", "e", "=">>) = 1
                 /\ \/ Includes(result.filter, <<",">> \o clause \o <<",">>)
                    \/ Includes(result.filter, <<",">> \o clause \o <<"[", "a", "0", "]">>)

C10_Witness ==
    /\ ReturnedValue
    /\ result.volumeCall.answer.value = <<"0", ".", "5">>
    /\ Includes(result.filter, <<",", "v", "o", "l", "u", "m", "e", "=", "0", ".", "5", ":", "e", "v", "a", "l", "=", "o", "n", "c", "e">>)

\* C11: for every fragment, the filter string holds the tone clause
\* 'asetrate=<rate>*<f>,aresample=<rate>,atempo=1/<f>' exactly once, as its
\* last clause, when toneFrequency f is provided and is not 1, and no
\* 'asetrate' at all when toneFrequency is null or 1.
C11_ToneClause ==
    ReturnedValue =>
        LET f      == request.toneFrequency
            clause == <<"a", "s", "e", "t", "r", "a", "t", "e", "=", "4", "8", "0", "0", "0", "*">> \o NumberToString(f)
                        \o <<",", "a", "r", "e", "s", "a", "m", "p", "l", "e", "=", "4", "8", "0", "0", "0", ",", "a", "t", "e", "m", "p", "o", "=", "1", "/">> \o NumberToString(f)
        IN  IF ~IsNull(f) /\ ~Eq(f, One)
            THEN /\ Occurrences(result.filter, <<"a", "s", "e", "t", "r", "a", "t", "e">>) = 1
                 /\ Includes(result.filter, <<",">> \o clause \o <<"[", "a", "0", "]">>)
            ELSE Occurrences(result.filter, <<"a", "s", "e", "t", "r", "a", "t", "e">>) = 0

\* a toneFrequency of 2 shifts the pitch an octave up
C11_Witness ==
    /\ ReturnedValue
    /\ request.toneFrequency = Int2Num(2)
    /\ Includes(result.filter, <<",", "a", "s", "e", "t", "r", "a", "t", "e", "=", "4", "8", "0", "0", "0", "*", "2", ",", "a", "r", "e", "s", "a", "m", "p", "l", "e", "=", "4", "8", "0", "0", "0", ",", "a", "t", "e", "m", "p", "o", "=", "1", "/", "2", "[", "a", "0", "]">>)

\* the clauses a stage contributes: its strings that are neither null nor empty
Contributed(stage) ==
    SelectSeq(stage, LAMBDA c : c # NullString /\ c # EmptyString)

\* the clauses of a fragment's filter string, between '[0:a]' and '[a0]'
ClausesOf(filter) ==
    SplitAt(SubSeq(filter, Len(<<"[", "0", ":", "a", "]">>) + 1, Len(filter) - Len(<<"[", "a", "0", "]">>)), ",")

\* C12: for every fragment, the filter string is '[0:a]', the clauses joined
\* by single commas, '[a0]'; the clauses are, in this order, the aformat
\* clause, the clauses of the trim/tempo stage that are neither null nor
\* empty, the volume clause if any, the tone clause if any; no clause is
\* empty (no ',,', no comma after '[0:a]' or before '[a0]').
C12_FilterForm ==
    ReturnedValue =>
        LET answer == result.volumeCall.answer
            f      == request.toneFrequency
            volume == IF answer.value = <<"1">> THEN <<>>
                      ELSE << <<"v", "o", "l", "u", "m", "e", "=">> \o answer.value
                                \o <<":", "e", "v", "a", "l", "=">> \o answer.eval >>
            tone   == IF IsNull(f) \/ Eq(f, One) THEN <<>>
                      ELSE << <<"a", "s", "e", "t", "r", "a", "t", "e", "=", "4", "8", "0", "0", "0", "*">> \o NumberToString(f),
                              <<"a", "r", "e", "s", "a", "m", "p", "l", "e", "=", "4", "8", "0", "0", "0">>,
                              <<"a", "t", "e", "m", "p", "o", "=", "1", "/">> \o NumberToString(f) >>
        IN  /\ StartsWith(result.filter, <<"[", "0", ":", "a", "]">>)
            /\ SubSeq(result.filter, Len(result.filter) - 3,
                      Len(result.filter)) = <<"[", "a", "0", "]">>
            /\ ClausesOf(result.filter)
                 = << <<"a", "f", "o", "r", "m", "a", "t", "=", "s", "a", "m", "p", "l", "e", "_", "f", "m", "t", "s", "=", "s", "3", "2", ":", "s", "a", "m", "p", "l", "e", "_", "r", "a", "t", "e", "s", "=", "4", "8", "0", "0", "0">> >>
                     \o Contributed(result.trimAndTempo.filter)
                     \o volume \o tone
            /\ \A i \in 1..Len(ClausesOf(result.filter)) :
                  Len(ClausesOf(result.filter)[i]) > 0
            /\ ~Includes(result.filter, <<",", ",">>)
            /\ ~Includes(result.filter, <<"[", "0", ":", "a", "]", ",">>)
            /\ ~Includes(result.filter, <<",", "[", "a", "0", "]">>)

\* playbackRate 1, volume "1", no tone: two clauses and nothing else
C12_Witness ==
    /\ ReturnedValue
    /\ Eq(request.playbackRate, One)
    /\ result.trimAndTempo.filter[2] = NullString
    /\ result.filter = <<"[", "0", ":", "a", "]", "a", "f", "o", "r", "m", "a", "t", "=", "s", "a", "m", "p", "l", "e", "_", "f", "m", "t", "s", "=", "s", "3", "2", ":", "s", "a", "m", "p", "l", "e", "_", "r", "a", "t", "e", "s", "=", "4", "8", "0", "0", "0", ",", "a", "t", "r", "i", "m", "=", "0", "u", "s", ":", "2", "0", "0", "0", "0", "0", "0", "u", "s", "[", "a", "0", "]">>

\* the right bound trimAndSetTempo trims at: min(trimRight, assetDuration)
\* for an assetDuration that is neither null nor 0, else trimRight
RightBoundOfCall ==
    IF AssetDurationKnown /\ request.assetDuration.n # 0
          /\ Lt(request.assetDuration, request.trimRight)
    THEN request.assetDuration
    ELSE request.trimRight

\* 'atrim=<left>:<right>' with the two durations as stringifyTrim writes them
AtrimOf(left, right) ==
    <<"a", "t", "r", "i", "m", "=">> \o stringifyTrim(left) \o <<":">> \o stringifyTrim(right)

\* C13: in seamless mode trimAndSetTempo answers the tempo clause first and
\* the atrim clause second, the arguments of atrim being trimLeft /
\* playbackRate and the clamped right bound / playbackRate, and
\* actualTrimLeft is trimLeft / playbackRate.
C13_SeamlessTempoFirst ==
    (Returned /\ request.forSeamlessAacConcatenation) =>
        /\ ~result.threw
        /\ Len(result.filter) = 2
        /\ result.filter[1] = calculateATempo(request.playbackRate)
        /\ result.filter[2]
             = AtrimOf(Div(request.trimLeft, request.playbackRate),
                       Div(RightBoundOfCall, request.playbackRate))
        /\ Eq(Mul(result.actualTrimLeft, request.playbackRate),
              request.trimLeft)

\* one to ten seconds at double speed: half a second to five seconds
C13_Witness ==
    /\ Returned
    /\ request.forSeamlessAacConcatenation
    /\ request.playbackRate = Int2Num(2)
    /\ request.trimLeft = One
    /\ result.filter = << <<"a", "t", "e", "m", "p", "o", "=", "2">>, <<"a", "t", "r", "i", "m", "=", "5", "0", "0", "0", "0", "0", "u", "s", ":", "5", "0", "0", "0", "0", "0", "0", "u", "s">> >>
    /\ result.actualTrimLeft = Num(1, 2)

\* C14: in default mode trimAndSetTempo answers the atrim clause first and
\* the tempo clause second, the arguments of atrim being trimLeft and the
\* clamped right bound as they are, and actualTrimLeft is trimLeft; for
\* trimLeft = 0, trimRight = 10, playbackRate = 2, assetDuration = null it
\* answers 'atrim=0us:10000000us', then the tempo clause for 2, and
\* audibleDuration = 5.
C14_DefaultTrimFirst ==
    (Returned /\ ~request.forSeamlessAacConcatenation) =>
        /\ ~result.threw
        /\ Len(result.filter) = 2
        /\ result.filter[1] = AtrimOf(request.trimLeft, RightBoundOfCall)
        /\ result.filter[2] = calculateATempo(request.playbackRate)
        /\ Eq(result.actualTrimLeft, request.trimLeft)
        /\ (/\ request.trimLeft = Zero
            /\ request.trimRight = Int2Num(10)
            /\ request.playbackRate = Int2Num(2)
            /\ IsNull(request.assetDuration))
           => /\ result.filter[1] = <<"a", "t", "r", "i", "m", "=", "0", "u", "s", ":", "1", "0", "0", "0", "0", "0", "0", "0", "u", "s">>
              /\ result.filter[2] = calculateATempo(Int2Num(2))
              /\ Eq(result.audibleDuration, Int2Num(5))

\* the round trip of ten seconds at double speed
C14_Witness ==
    /\ Returned
    /\ ~request.forSeamlessAacConcatenation
    /\ request.trimLeft = Zero
    /\ request.trimRight = Int2Num(10)
    /\ request.playbackRate = Int2Num(2)
    /\ IsNull(request.assetDuration)
    /\ result.filter = << <<"a", "t", "r", "i", "m", "=", "0", "u", "s", ":", "1", "0", "0", "0", "0", "0", "0", "0", "u", "s">>, <<"a", "t", "e", "m", "p", "o", "=", "2">> >>
    /\ Eq(result.audibleDuration, Int2Num(5))

\* the atrim clause among the clauses of the trim/tempo stage
AtrimClauseOf(stage) ==
    CHOOSE c \in { stage[i] : i \in 1..Len(stage) } : StartsWith(c, <<"a", "t", "r", "i", "m", "=">>)

\* its two bounds, as written: <<left, right>>
AtrimBoundsOf(stage) == SplitAt(AfterPrefix(AtrimClauseOf(stage), <<"a", "t", "r", "i", "m", "=">>), ":")

\* C15: trimAndSetTempo trims at min(trimRight, assetDuration) whenever
\* assetDuration is known (non-null, 0 included) and at trimRight when it is
\* null: the right bound of the atrim it answers is that bound (divided by
\* playbackRate in seamless mode), so with a known assetDuration it never
\* lies past the end of the source.
C15_RightBoundWithinAsset ==
    Returned =>
        LET R     == IF AssetDurationKnown
                     THEN MathMin(request.trimRight, request.assetDuration)
                     ELSE request.trimRight
            bound == IF request.forSeamlessAacConcatenation
                     THEN Div(R, request.playbackRate)
                     ELSE R
        IN  AtrimBoundsOf(result.filter)[2] = stringifyTrim(bound)

\* an optional '-', then digits only
IsIntegerString(s) ==
    IF Len(s) > 0 /\ s[1] = "-" THEN IsDigitString(Tail(s))
    ELSE IsDigitString(s)

\* C16: stringifyTrim formats every duration of magnitude below 1e-6
\* seconds, positive or negative, as '0us'.
C16_BelowOneMicrosecondIsZero ==
    (Returned /\ Lt(AbsNum(request), Norm(1, 1, -6))) => result = <<"0", "u", "s">>

\* C17: stringifyTrim answers an integer number of microseconds: an optional
\* sign, digits, 'us'; no fraction and no exponent.
C17_IntegerMicroseconds ==
    Returned =>
        /\ Len(result) > 2
        /\ SubSeq(result, Len(result) - 1, Len(result)) = <<"u", "s">>
        /\ IsIntegerString(SubSeq(result, 1, Len(result) - 2))
        /\ ~Includes(result, <<"e", "-">>)
        /\ ~Includes(result, <<"e", "+">>)
        /\ ~Includes(result, <<".">>)

\* C18: for every fragment, the volume service was called with trimLeft set
\* to actualTrimLeft, which is trimLeft in default mode and trimLeft /
\* playbackRate in seamless mode and is the left bound of the atrim clause,
\* and with the fps, the volume and allowAmplificationDuringRender of the
\* request.
C18_VolumeCall ==
    ReturnedValue =>
        LET call == result.volumeCall
        IN  /\ call.called
            /\ Eq(call.trimLeft, result.trimAndTempo.actualTrimLeft)
            /\ IF request.forSeamlessAacConcatenation
               THEN Eq(Mul(call.trimLeft, request.playbackRate),
                       request.trimLeft)
               ELSE Eq(call.trimLeft, request.trimLeft)
            /\ AtrimBoundsOf(result.trimAndTempo.filter)[1]
                 = stringifyTrim(call.trimLeft)
            /\ call.fps = request.fps
            /\ call.volume = request.volume
            /\ call.allowAmplificationDuringRender
                 = request.allowAmplificationDuringRender

\* seamless mode at double speed: the service is told half the trimLeft
C18_Witness ==
    /\ ReturnedValue
    /\ request.forSeamlessAacConcatenation
    /\ request.playbackRate = Int2Num(2)
    /\ request.trimLeft = One
    /\ request.fps = Int2Num(25)
    /\ request.volume = "perFrame"
    /\ Eq(result.volumeCall.trimLeft, Num(1, 2))
    /\ result.volumeCall.fps = Int2Num(25)
    /\ result.volumeCall.allowAmplificationDuringRender

\* the number of samples pad_end carries, when it is written in digits
PadLen == ParseNat(AfterPrefix(result.pad_end, <<"a", "p", "a", "d", "=", "p", "a", "d", "_", "l", "e", "n", "=">>))

\* C19, as stated: whenever pad_end is emitted, its pad_len is a whole number
\* of samples that is at least 1.
C19_PadLenAtLeastOne ==
    (ReturnedValue /\ result.pad_end # NullString) =>
        /\ StartsWith(result.pad_end, <<"a", "p", "a", "d", "=", "p", "a", "d", "_", "l", "e", "n", "=">>)
        /\ IsDigitString(AfterPrefix(result.pad_end, <<"a", "p", "a", "d", "=", "p", "a", "d", "_", "l", "e", "n", "=">>))
        /\ PadLen >= 1

\* C19, amended: whenever pad_end is emitted, its pad_len is a whole number
\* of samples that is not negative; it is 0 exactly when padAtEnd, which is
\* above 1e-7 seconds, is below half a sample.
C19_PadLenNotNegative ==
    (ReturnedValue /\ result.pad_end # NullString) =>
        /\ StartsWith(result.pad_end, <<"a", "p", "a", "d", "=", "p", "a", "d", "_", "l", "e", "n", "=">>)
        /\ IsDigitString(AfterPrefix(result.pad_end, <<"a", "p", "a", "d", "=", "p", "a", "d", "_", "l", "e", "n", "=">>))
        /\ PadLen >= 0
        /\ PadLen = 0 <=> Lt(Mul(PadAtEndOfRequest, SampleRate), Num(1, 2))

\* a shortfall of ten microseconds, 0.48 samples, is padded with 0 samples
C19_Witness ==
    /\ ReturnedValue
    /\ Eq(PadAtEndOfRequest, Norm(1, 1, -5))
    /\ result.pad_end = <<"a", "p", "a", "d", "=", "p", "a", "d", "_", "l", "e", "n", "=", "0">>

\* the digits of an unsigned literal '<digits>us' or '<digits>.<digits>us':
\* <<integer part, fraction>>
LiteralDigits(literal) ==
    LET parts == SplitAt(SubSeq(literal, 1, Len(literal) - 2), ".")
    IN  IF Len(parts) = 1 THEN <<parts[1], <<>>>> ELSE <<parts[1], parts[2]>>

\* s <= t for two digit strings of one length
RECURSIVE DigitsLe(_, _)
DigitsLe(s, t) ==
    IF Len(s) = 0 THEN TRUE
    ELSE IF s[1] = t[1] THEN DigitsLe(Tail(s), Tail(t))
    ELSE DigitValue(s[1]) < DigitValue(t[1])

\* a <= b for two unsigned literals, compared digit by digit
LiteralLe(a, b) ==
    LET da == LiteralDigits(a)
        db == LiteralDigits(b)
        l  == IF Len(da[2]) > Len(db[2]) THEN Len(da[2]) ELSE Len(db[2])
    IN  /\ IsDigitString(da[1])
        /\ IsDigitString(db[1])
        /\ IF Len(da[1]) # Len(db[1]) THEN Len(da[1]) < Len(db[1])
           ELSE DigitsLe(da[1] \o da[2] \o Zeros(l - Len(da[2])),
                         db[1] \o db[2] \o Zeros(l - Len(db[2])))

\* C20: for every fragment of a request with 0 <= trimLeft <= trimRight and
\* playbackRate > 0, in both modes and also when the right bound was clamped
\* to assetDuration, the left bound of the atrim clause is not greater than
\* its right bound and audibleDuration is not negative.
C20_WindowNotInverted ==
    (/\ ReturnedValue
     /\ Le(Zero, request.trimLeft)
     /\ Le(request.trimLeft, request.trimRight)
     /\ Gt(request.playbackRate, Zero)) =>
        LET bounds == AtrimBoundsOf(result.trimAndTempo.filter)
        IN  /\ Len(bounds) = 2
            /\ LiteralLe(bounds[1], bounds[2])
            /\ Ge(result.trimAndTempo.audibleDuration, Zero)

\* a window of two seconds on an asset of one, at triple speed
C20_Witness ==
    /\ ReturnedValue
    /\ request.forSeamlessAacConcatenation
    /\ request.playbackRate = Int2Num(3)
    /\ request.trimLeft = Zero
    /\ request.trimRight = Int2Num(2)
    /\ request.assetDuration = One
    /\ AtrimBoundsOf(result.trimAndTempo.filter)
         = << <<"0", "u", "s">>, <<"3", "3", "3", "3", "3", "3", ".", "3", "3", "3", "3", "3", "3", "3", "3", "3", "3", "3", "u", "s">> >>
    /\ Eq(result.trimAndTempo.audibleDuration, Num(1, 3))

\* C21: selectComposition forwards the caller's logLevel whenever one is
\* given; only when none is given does verbose decide: 'verbose' when it is
\* true and 'info' otherwise.
C21_LogLevelForwarded ==
    Returned =>
        result.forwarded.logLevel
            = IF request.logLevel # Undefined THEN request.logLevel
              ELSE IF request.verbose = "true" THEN "verbose"
              ELSE "info"

\* the promise internalSelectCompositionRaw returned after it acquired the
\* page has settled
PromiseSettled ==
    /\ result.promise.state \in {"resolved", "rejected"}
    /\ result.promise.by # "getPageAndCleanupFn"

\* the cleanup functions registered so far
Registered == { result.cleanup[i] : i \in 1..Len(result.cleanup) }

\* C22: in a call that acquired the page, once the returned promise has
\* settled (resolved with the data, rejected by the chain, or rejected
\* through onError), every cleanup function registered so far is eventually
\* invoked; none is ever invoked twice or without being registered; and
\* nothing that happens after the promise has settled, a failing cleanup
\* function included, changes its outcome.
C22_CleanupAfterSettling ==
    /\ \A c \in CleanupFns :
          (PromiseSettled /\ c \in Registered) ~> (result.invoked[c] = 1)
    /\ [](\A c \in CleanupFns :
            /\ result.invoked[c] <= 1
            /\ result.invoked[c] = 1 => c \in Registered)
    /\ [][PromiseSettled => result'.promise = result.promise]_vars

\* rejected through onError while the server was awaited; the chain went on,
\* registered the server cleanup and ran all three, of which one failed
C22_Witness ==
    /\ phase = "done"
    /\ result.promise = [state |-> "rejected", by |-> "pageException"]
    /\ result.cleanup
         = <<"cleanupPage", "removeExceptionHandler", "cleanupServer">>
    /\ \A c \in CleanupFns : result.invoked[c] = 1
    /\ result.returned["cleanupServer"] = "failed"

\* the label the quick switcher shows for an item: its quickSwitcherLabel
\* when that is not null, else its label
ShownLabel(item) ==
    IF item.quickSwitcherLabel = NullString THEN item.label
    ELSE item.quickSwitcherLabel

\* the leaves under an item (items that are no divider and have no subMenu,
\* at any depth), each with its id and the title made of the shown labels of
\* its ancestors and its own, in the order of the structure
RECURSIVE LeavesOf(_, _)
RECURSIVE LeavesOfItems(_, _)
LeavesOf(item, ancestors) ==
    IF item.type = "divider" THEN <<>>
    ELSE IF item.subMenu.present
    THEN LeavesOfItems(item.subMenu.items, Append(ancestors, ShownLabel(item)))
    ELSE << [ id |-> item.id,
              title |-> Join(Append(ancestors, ShownLabel(item)),
                             <<":", " ">>) ] >>

LeavesOfItems(items, ancestors) ==
    IF Len(items) = 0 THEN <<>>
    ELSE LeavesOf(items[1], ancestors) \o LeavesOfItems(Tail(items), ancestors)

RECURSIVE LeavesOfMenus(_)
LeavesOfMenus(menus) ==
    IF Len(menus) = 0 THEN <<>>
    ELSE LeavesOfItems(menus[1].items, <<>>) \o LeavesOfMenus(Tail(menus))

\* how often e occurs in s
CountIn(s, e) == Cardinality({ i \in 1..Len(s) : s[i] = e })

\* C23: makeSearchResults returns exactly one result per leaf of the
\* structure (an item that is no divider and has no subMenu, at any depth)
\* and nothing else; the title of a result is the shown labels of the
\* ancestor items of its leaf and then its own (the quickSwitcherLabel when
\* not null, else the label), joined by ': '; and selecting a result calls
\* setSelectedModal(null) first and the onClick of its item second.
C23_OneResultPerLeaf ==
    /\ phase \in {"returned", "selected"} =>
          LET leaves == LeavesOfMenus(request)
              got    == [ i \in 1..Len(result.results) |->
                            [ id |-> result.results[i].id,
                              title |-> result.results[i].title ] ]
          IN  /\ Len(got) = Len(leaves)
              /\ \A i \in 1..Len(leaves) :
                    CountIn(got, leaves[i]) = CountIn(leaves, leaves[i])
              /\ \A i \in 1..Len(result.results) :
                    result.results[i].type = "menu-item"
    /\ phase = "selected" =>
          /\ result.selected \in 1..Len(result.results)
          /\ result.calls
               = << [fn |-> "setSelectedModal", arg |-> "null"],
                    [fn |-> "onClick",
                     arg |-> result.results[result.selected].id] >>

\* a menu of a divider and of an item whose sub-menu holds a sub-menu: the
\* one result is that of the innermost item, under both ancestors, selected
C23_Witness ==
    /\ phase = "selected"
    /\ Len(request) = 1
    /\ Len(request[1].items) = 1
    /\ Len(result.results) = 2
    /\ result.results[1].title = <<"N", ":", " ", "M", ":", " ", "Q">>
    /\ result.results[2].title = <<"N", ":", " ", "C">>
    /\ result.selected = 1
    /\ result.calls[2] = [fn |-> "onClick", arg |-> "q"]

====
